---- MODULE Spec2Model ----
(***************************************************************************)
(* dask_k8: the lifecycle of a Dask cluster in kubernetes, as driven by    *)
(* DaskCluster (src/dask_k8/cluster.py): create, close, make_dask_client   *)
(* and scale, against a kubernetes API server (services, deployments,      *)
(* pods) and a Dask scheduler (client connections, live worker count).     *)
(*                                                                         *)
(* Every method is a sequence of steps, one per call it makes to the       *)
(* platform or to the scheduler; pc[c] is the position of controller c in  *)
(* the method it is running ("idle" between two calls of the caller).      *)
(***************************************************************************)
EXTENDS Integers, Sequences, FiniteSets, TLC

(***************************************************************************)
(* Bounds of the model                                                     *)
(***************************************************************************)
\* largest target / reported number of workers
MaxWorkers == 1
\* polls of one polling loop (pod list in create, worker count in scale)
MaxPolls == 2
\* largest explicit `retries` argument of make_dask_client
MaxRetries == 1
\* connections the scheduler accepts over a run
MaxClients == 2
\* pods one pod listing may return
MaxPods == 2

(***************************************************************************)
(* Program constants                                                       *)
(***************************************************************************)
SchedulerPort == 8786
DashboardPort == 8787
SchedulerReplicas == 1
\* (mutant) the workers start with as many replicas as the scheduler
WorkerReplicas_AsScheduler == SchedulerReplicas
WorkerReplicas == 0
DefaultRetries == 20
DefaultTimeout == 10

None == "None"

ClusterIds == {"alice", "alice-dashboard"}
Namespaces == {"ns1"}
HostIPs == {"10.0.0.5", "10.0.0.6"}
ClusterIPs == {"10.96.0.1", "10.96.0.2"}
\* the node ports the platform has to allocate
NodePorts == {31000, 31001}

\* the env entries of default_configs.worker_pod_spec_yaml
worker_pod_spec_yaml ==
    << [name |-> "POD_IP", value |-> "fieldRef:status.podIP"],
       [name |-> "POD_NAME", value |-> "fieldRef:metadata.name"],
       [name |-> "EXTRA_PIP_PACKAGES", value |-> "s3fs"],
       [name |-> "EXTRA_CONDA_PACKAGES", value |-> None] >>

VARIABLES
    \* DaskCluster fields, per controller
    namespace, cluster_id, worker_pod_spec,
    initialized, scheduler, dashboard, client,
    \* the call in progress: method, position, arguments and locals
    op, pc, frame,
    \* how the last call ended, what it returned, the calls it issued, and
    \* the controller's fields when it was entered
    outcome, retval, calls, entry,
    \* the platform: services and deployments held by the API server, and
    \* whether it may refuse a request it could serve (quota, permission, outage)
    services, deployments, faulty,
    \* the scheduler: connections accepted so far
    connSerial,
    \* the clients each controller's close() has dropped so far
    dropped,
    \* the with statement the controller is used in, if any: where control is,
    \* what its entry created, what its exit tried to delete, what it raises
    with_stmt

vars == <<namespace, cluster_id, worker_pod_spec, initialized, scheduler, dashboard,
          client, op, pc, frame, outcome, retval, calls, entry, services,
          deployments, faulty, connSerial, dropped, with_stmt>>

config == <<namespace, cluster_id, worker_pod_spec, faulty>>
fields == <<initialized, scheduler, dashboard, client>>
platform == <<services, deployments>>

Ctl == DOMAIN cluster_id

(***************************************************************************)
(* Derived resource names (properties of DaskCluster)                      *)
(***************************************************************************)
name_scheduler_service(c) == "dask-scheduler-" \o cluster_id[c]

name_scheduler_dashboard_service(c) == "dask-scheduler-" \o cluster_id[c] \o "-dashboard"

\* (mutant) the scheduler deployment gets a name of its own, which close()
\* does not use
name_scheduler_deployment_own(c) == "dask-scheduler-deployment-" \o cluster_id[c]

name_scheduler_deployment(c) == name_scheduler_service(c)

name_workers_deployment(c) == "dask-workers-" \o cluster_id[c]

scheduler_labels(c) == [app |-> "dask-scheduler", user |-> cluster_id[c]]

workers_labels(c) == [app |-> "dask-workers", user |-> cluster_id[c]]

\* (mutant) the port the service listens on, not the allocated node port
scheduler_address_service_port(ip, port) == "tcp://" \o ip \o ":" \o ToString(SchedulerPort)

\* f"tcp://{ip}:{port}" and f"http://{ip}:{port}"
scheduler_address(ip, port) == "tcp://" \o ip \o ":" \o ToString(port)

dashboard_address(ip, port) == "http://" \o ip \o ":" \o ToString(port)

\* f"{cluster_ip}:{port}"
ip_port_internal(svc) == svc.cluster_ip \o ":" \o ToString(svc.port)

(***************************************************************************)
(* The frame of a call: arguments and locals                               *)
(***************************************************************************)
NoService == [ns |-> None, name |-> None, port |-> 0, node_port |-> 0,
              cluster_ip |-> None, selector |-> [app |-> None, user |-> None],
              creator |-> 0]

EmptyFrame == [n |-> 0, blocking |-> FALSE, retries |-> 0, attempt |-> 0,
               caller |-> None,
               service_scheduler_created |-> NoService,
               service_scheduler_dashboard_created |-> NoService,
               dask_scheduler_external_ip |-> None,
               client |-> None, n_workers |-> 0, polls |-> 0,
               \* (history) the client the first successful connection of this
               \* call yielded, and whether a connection was attempted after it
               first_client |-> None, attempted_after_success |-> FALSE]

\* one call issued to the platform or to the scheduler
Call(what, ns, name, arg, result, hit) ==
    [call |-> what, ns |-> ns, name |-> name, arg |-> arg, result |-> result,
     hit |-> hit]

Snapshot(c) == [initialized |-> initialized[c], scheduler |-> scheduler[c],
                dashboard |-> dashboard[c], client |-> client[c]]

NoSnapshot == [initialized |-> FALSE, scheduler |-> None, dashboard |-> None,
               client |-> None]

(***************************************************************************)
(* Initial state: DaskCluster.__init__                                     *)
(***************************************************************************)
\* no with statement has been entered
NoWith == [stage |-> "outside", created |-> {}, deleted |-> {}, exc |-> None]

InitFields ==
    /\ namespace \in [Ctl -> Namespaces]
    /\ worker_pod_spec = [c \in Ctl |-> worker_pod_spec_yaml]
    /\ initialized = [c \in Ctl |-> FALSE]
    /\ scheduler = [c \in Ctl |-> None]
    /\ dashboard = [c \in Ctl |-> None]
    /\ client = [c \in Ctl |-> None]
    /\ op = [c \in Ctl |-> None]
    /\ pc = [c \in Ctl |-> "idle"]
    /\ frame = [c \in Ctl |-> EmptyFrame]
    /\ outcome = [c \in Ctl |-> None]
    /\ retval = [c \in Ctl |-> None]
    /\ calls = [c \in Ctl |-> <<>>]
    /\ entry = [c \in Ctl |-> NoSnapshot]
    /\ services = {}
    /\ deployments = {}
    /\ connSerial = 0
    /\ dropped = [c \in Ctl |-> {}]
    /\ with_stmt = [c \in Ctl |-> NoWith]

Init ==
    /\ cluster_id \in [{1} -> ClusterIds]
    /\ faulty \in BOOLEAN
    /\ InitFields

(***************************************************************************)
(* The platform (kubernetes API server), as the controller calls it        *)
(***************************************************************************)
ServicesNamed(ns, name) == {s \in services : s.ns = ns /\ s.name = name}

DeploymentsNamed(ns, name) == {d \in deployments : d.ns = ns /\ d.name = name}

\* the controller whose create made the resources of `found` (0: there is none)
CreatorOf(found) == IF found = {} THEN 0 ELSE (CHOOSE r \in found : TRUE).creator

Rejected == [node_port |-> 0, cluster_ip |-> None]

\* the answers of the platform to a request it could serve: it serves it
\* (TRUE) or, when faulty, may refuse it (FALSE)
Answers == IF faulty THEN BOOLEAN ELSE {TRUE}

FreeOffers ==
    {[node_port |-> np, cluster_ip |-> ip] :
        np \in NodePorts \ {s.node_port : s \in services},
        ip \in ClusterIPs \ {s.cluster_ip : s \in services}}

\* what the platform may answer to a service creation: a free node port and
\* a free cluster IP, or a rejection (a conflict on the name, no port left,
\* or a refusal)
ServiceOffers(ns, name) ==
    IF ServicesNamed(ns, name) /= {} \/ FreeOffers = {} THEN {Rejected}
    ELSE FreeOffers \cup (IF faulty THEN {Rejected} ELSE {})

\* the pod lists a listing may return: the host_ip of each item
PodLists == UNION {[1..k -> HostIPs \cup {None}] : k \in 0..MaxPods}

\* yaml.safe_load of a pod specification: a fresh list of its env entries
yaml_safe_load(spec) == spec

(***************************************************************************)
(* Entering and leaving a call                                             *)
(***************************************************************************)
\* (the caller is one thread: a call is entered when no other call is running)
Enter(c, method, first, fr) ==
    /\ \A d \in Ctl : pc[d] = "idle"
    /\ op' = [op EXCEPT ![c] = method]
    /\ pc' = [pc EXCEPT ![c] = first]
    /\ frame' = [frame EXCEPT ![c] = fr]
    /\ outcome' = [outcome EXCEPT ![c] = "running"]
    /\ retval' = [retval EXCEPT ![c] = None]
    /\ calls' = [calls EXCEPT ![c] = <<>>]
    /\ entry' = [entry EXCEPT ![c] = Snapshot(c)]

\* the call ends, normally ("returned") or with an exception
Leave(c, how) ==
    /\ pc' = [pc EXCEPT ![c] = "done"]
    /\ outcome' = [outcome EXCEPT ![c] = how]

\* control is back in the caller: the frame of the call is gone
ReturnFrame(c) ==
    /\ pc[c] = "done"
    /\ pc' = [pc EXCEPT ![c] = "idle"]
    /\ op' = [op EXCEPT ![c] = None]
    /\ frame' = [frame EXCEPT ![c] = EmptyFrame]
    /\ outcome' = [outcome EXCEPT ![c] = None]
    /\ retval' = [retval EXCEPT ![c] = None]
    /\ calls' = [calls EXCEPT ![c] = <<>>]
    /\ entry' = [entry EXCEPT ![c] = NoSnapshot]
    /\ UNCHANGED <<config, fields, platform, connSerial, dropped>>

\* a call made outside of a with statement is over
Return(c) ==
    /\ with_stmt[c].stage = "outside"
    /\ ReturnFrame(c)
    /\ UNCHANGED with_stmt

Goto(c, label) ==
    /\ pc' = [pc EXCEPT ![c] = label]
    /\ UNCHANGED outcome

Log(c, e) == calls' = [calls EXCEPT ![c] = Append(@, e)]

(***************************************************************************)
(* DaskCluster.create                                                      *)
(***************************************************************************)
CallCreate(c) ==
    /\ Enter(c, "create", "create_service_scheduler", EmptyFrame)
    /\ UNCHANGED <<config, fields, platform, connSerial, dropped, with_stmt>>

\* v1.create_namespaced_service(self.namespace, body): the service is added
\* with what the platform allocates, or the ApiException propagates
create_namespaced_service(c, name, port, local, next) ==
    \E offer \in ServiceOffers(namespace[c], name) :
        LET hit == CreatorOf(ServicesNamed(namespace[c], name))
            created == [ns |-> namespace[c], name |-> name, port |-> port,
                        node_port |-> offer.node_port,
                        cluster_ip |-> offer.cluster_ip,
                        selector |-> scheduler_labels(c), creator |-> c]
        IN  IF offer = Rejected
            THEN /\ Log(c, Call("create_service", namespace[c], name, port,
                                IF hit = 0 THEN "error" ELSE "conflict", hit))
                 /\ Leave(c, "ApiException")
                 /\ UNCHANGED <<services, frame>>
            ELSE /\ Log(c, Call("create_service", namespace[c], name, port,
                                "created", hit))
                 /\ services' = services \cup {created}
                 /\ frame' = [frame EXCEPT ![c][local] = created]
                 /\ Goto(c, next)

CreateSchedulerService(c) ==
    /\ pc[c] = "create_service_scheduler"
    /\ create_namespaced_service(c, name_scheduler_service(c), SchedulerPort,
                                 "service_scheduler_created",
                                 "create_service_dashboard")
    /\ UNCHANGED <<config, fields, op, retval, entry, deployments, connSerial, dropped, with_stmt>>

CreateDashboardService(c) ==
    /\ pc[c] = "create_service_dashboard"
    /\ create_namespaced_service(c, name_scheduler_dashboard_service(c),
                                 DashboardPort,
                                 "service_scheduler_dashboard_created",
                                 "create_deployment_scheduler")
    /\ UNCHANGED <<config, fields, op, retval, entry, deployments, connSerial, dropped, with_stmt>>

\* apps_v1.create_namespaced_deployment(self.namespace, body)
\* (mutant) a rejected deployment is ignored and create() goes on
create_namespaced_deployment_ignores(c, name, replicas, labels, env, next) ==
    \E accepted \in Answers :
        LET hit == CreatorOf(DeploymentsNamed(namespace[c], name))
            created == [ns |-> namespace[c], name |-> name,
                        replicas |-> replicas, labels |-> labels, env |-> env,
                        creator |-> c]
        IN  IF accepted /\ hit = 0
            THEN /\ Log(c, Call("create_deployment", namespace[c], name,
                                replicas, "created", hit))
                 /\ deployments' = deployments \cup {created}
                 /\ Goto(c, next)
            ELSE /\ Log(c, Call("create_deployment", namespace[c], name,
                                replicas,
                                IF hit = 0 THEN "error" ELSE "conflict", hit))
                 /\ Goto(c, next)
                 /\ UNCHANGED deployments

create_namespaced_deployment(c, name, replicas, labels, env, next) ==
    \E accepted \in Answers :
        LET hit == CreatorOf(DeploymentsNamed(namespace[c], name))
            created == [ns |-> namespace[c], name |-> name,
                        replicas |-> replicas, labels |-> labels, env |-> env,
                        creator |-> c]
        IN  IF accepted /\ hit = 0
            THEN /\ Log(c, Call("create_deployment", namespace[c], name,
                                replicas, "created", hit))
                 /\ deployments' = deployments \cup {created}
                 /\ Goto(c, next)
            ELSE /\ Log(c, Call("create_deployment", namespace[c], name,
                                replicas,
                                IF hit = 0 THEN "error" ELSE "conflict", hit))
                 /\ Leave(c, "ApiException")
                 /\ UNCHANGED deployments

\* the scheduler's pod template has no env of its own
scheduler_env == <<>>

\* worker_pod_spec['containers'][0]['env'].append(V1EnvVar(...))
worker_env(c) ==
    Append(yaml_safe_load(worker_pod_spec[c]),
           [name |-> "DASK_SCHEDULER_ADDRESS",
            value |-> ip_port_internal(frame[c].service_scheduler_created)])

CreateSchedulerDeployment(c) ==
    /\ pc[c] = "create_deployment_scheduler"
    /\ create_namespaced_deployment(c, name_scheduler_deployment(c),
                                    SchedulerReplicas, scheduler_labels(c),
                                    scheduler_env, "create_deployment_workers")
    /\ UNCHANGED <<config, fields, op, frame, retval, entry, services, connSerial, dropped, with_stmt>>

\* (mutant) the worker template is parsed once and the entry appended to it
\* in place, so that it stays in the controller's template
CreateWorkersDeployment_InPlace(c) ==
    /\ pc[c] = "create_deployment_workers"
    /\ worker_pod_spec' = [worker_pod_spec EXCEPT ![c] = worker_env(c)]
    /\ create_namespaced_deployment(c, name_workers_deployment(c),
                                    WorkerReplicas, workers_labels(c),
                                    worker_env(c), "create_poll")
    /\ UNCHANGED <<namespace, cluster_id, faulty, fields, op, frame, retval, entry,
                   services, connSerial, dropped, with_stmt>>

CreateWorkersDeployment(c) ==
    /\ pc[c] = "create_deployment_workers"
    /\ create_namespaced_deployment(c, name_workers_deployment(c),
                                    WorkerReplicas, workers_labels(c),
                                    worker_env(c), "create_poll")
    /\ UNCHANGED <<config, fields, op, frame, retval, entry, services, connSerial, dropped, with_stmt>>

\* label_selector=f"user={self.cluster_id},app=dask-scheduler"
scheduler_selector(c) == "user=" \o cluster_id[c] \o ",app=dask-scheduler"

\* one turn of the loop of lines 110-116, and lines 118-120 when it breaks:
\* v1.list_namespaced_pod(...).items[0].status.host_ip
PollSchedulerPod(c) ==
    /\ pc[c] = "create_poll"
    /\ frame[c].polls < MaxPolls
    /\ \E items \in PodLists :
        IF Len(items) = 0
        THEN \* items[0] of an empty list
             /\ Log(c, Call("list_pod", namespace[c], scheduler_selector(c), 0,
                            "empty", 0))
             /\ Leave(c, "IndexError")
             /\ UNCHANGED <<fields, frame>>
        ELSE IF items[1] = None
        THEN \* sleep(2), and again
             /\ Log(c, Call("list_pod", namespace[c], scheduler_selector(c), 0,
                            "pending", 0))
             /\ frame' = [frame EXCEPT ![c].polls = @ + 1]
             /\ Goto(c, "create_poll")
             /\ UNCHANGED fields
        ELSE LET f == frame[c]
                 ip == items[1]
             IN  /\ Log(c, Call("list_pod", namespace[c], scheduler_selector(c),
                                0, "host", 0))
                 /\ frame' = [frame EXCEPT ![c].polls = @ + 1,
                                           ![c].dask_scheduler_external_ip = ip]
                 /\ initialized' = [initialized EXCEPT ![c] = TRUE]
                 /\ scheduler' = [scheduler EXCEPT ![c] =
                        scheduler_address(ip, f.service_scheduler_created.node_port)]
                 /\ dashboard' = [dashboard EXCEPT ![c] =
                        dashboard_address(ip, f.service_scheduler_dashboard_created.node_port)]
                 /\ Leave(c, "returned")
                 /\ UNCHANGED client
    /\ UNCHANGED <<config, op, retval, entry, platform, connSerial, dropped, with_stmt>>



(***************************************************************************)
(* DaskCluster.close                                                       *)
(***************************************************************************)
CallClose(c) ==
    /\ Enter(c, "close", "close_service_scheduler", EmptyFrame)
    /\ UNCHANGED <<config, fields, platform, connSerial, dropped, with_stmt>>

\* (mutant) the exception of a deletion is not caught
except_reraise(c, next) == Leave(c, "ApiException")

\* (mutant) one try block around the four deletions: the first failure
\* skips the deletions that follow
except_skip_rest(c, next) == Goto(c, "close_clear")

\* except Exception as e: pass
except_pass(c, next) == Goto(c, next)

\* v1.delete_namespaced_service(name, self.namespace) inside try/except: the
\* service is deleted, or the platform raises (not found, or any other error)
delete_namespaced_service(c, name, next) ==
    LET found == ServicesNamed(namespace[c], name)
        hit == CreatorOf(found)
    IN  \E deleted \in Answers :
            IF found /= {} /\ deleted
            THEN /\ Log(c, Call("delete_service", namespace[c], name, 0,
                                "deleted", hit))
                 /\ services' = services \ found
                 /\ Goto(c, next)
            ELSE /\ Log(c, Call("delete_service", namespace[c], name, 0,
                                IF found = {} THEN "not_found" ELSE "error", hit))
                 /\ UNCHANGED services
                 /\ except_pass(c, next)

\* apps_v1.delete_namespaced_deployment(name, self.namespace) inside try/except
delete_namespaced_deployment(c, name, next) ==
    LET found == DeploymentsNamed(namespace[c], name)
        hit == CreatorOf(found)
    IN  \E deleted \in Answers :
            IF found /= {} /\ deleted
            THEN /\ Log(c, Call("delete_deployment", namespace[c], name, 0,
                                "deleted", hit))
                 /\ deployments' = deployments \ found
                 /\ Goto(c, next)
            ELSE /\ Log(c, Call("delete_deployment", namespace[c], name, 0,
                                IF found = {} THEN "not_found" ELSE "error", hit))
                 /\ UNCHANGED deployments
                 /\ except_pass(c, next)

DeleteSchedulerService(c) ==
    /\ pc[c] = "close_service_scheduler"
    /\ delete_namespaced_service(c, name_scheduler_service(c),
                                 "close_service_dashboard")
    /\ UNCHANGED <<config, fields, op, frame, retval, entry, deployments, connSerial, dropped, with_stmt>>

DeleteDashboardService(c) ==
    /\ pc[c] = "close_service_dashboard"
    /\ delete_namespaced_service(c, name_scheduler_dashboard_service(c),
                                 "close_deployment_scheduler")
    /\ UNCHANGED <<config, fields, op, frame, retval, entry, deployments, connSerial, dropped, with_stmt>>

\* line 143 names the scheduler deployment by name_scheduler_service
DeleteSchedulerDeployment(c) ==
    /\ pc[c] = "close_deployment_scheduler"
    /\ delete_namespaced_deployment(c, name_scheduler_service(c),
                                    "close_deployment_workers")
    /\ UNCHANGED <<config, fields, op, frame, retval, entry, services, connSerial, dropped, with_stmt>>

DeleteWorkersDeployment(c) ==
    /\ pc[c] = "close_deployment_workers"
    /\ delete_namespaced_deployment(c, name_workers_deployment(c), "close_clear")
    /\ UNCHANGED <<config, fields, op, frame, retval, entry, services, connSerial, dropped, with_stmt>>

\* (mutant) close() forgets to drop the client
CloseClear_KeepsClient(c) ==
    /\ pc[c] = "close_clear"
    /\ initialized' = [initialized EXCEPT ![c] = FALSE]
    /\ Leave(c, "returned")
    /\ UNCHANGED <<config, scheduler, dashboard, client, op, frame, retval, calls,
                   entry, platform, connSerial, dropped, with_stmt>>

\* self._initialized = False; self._client = None
CloseClear(c) ==
    /\ pc[c] = "close_clear"
    /\ initialized' = [initialized EXCEPT ![c] = FALSE]
    /\ client' = [client EXCEPT ![c] = None]
    /\ dropped' = [dropped EXCEPT ![c] = @ \cup ({client[c]} \ {None})]
    /\ Leave(c, "returned")
    /\ UNCHANGED <<config, scheduler, dashboard, op, frame, retval, calls, entry,
                   platform, connSerial, with_stmt>>


(***************************************************************************)
(* DaskCluster.make_dask_client                                            *)
(***************************************************************************)
Retries == (0..MaxRetries) \cup {DefaultRetries}

\* the client object the k-th accepted connection yields
Client(k) == "Client-" \o ToString(k)

CallMakeDaskClient(c, retries) ==
    /\ Enter(c, "make_dask_client", "mdc_check",
             [EmptyFrame EXCEPT !.retries = retries, !.caller = "user"])
    /\ UNCHANGED <<config, fields, platform, connSerial, dropped, with_stmt>>

\* (mutant) make_dask_client connects again whether or not a client is memoized
MdcCheck_AlwaysConnects(c) ==
    /\ pc[c] = "mdc_check"
    /\ IF ~initialized[c]
       THEN Leave(c, "ValueError")
       ELSE IF frame[c].retries > 0
            THEN Goto(c, "mdc_connect")
            ELSE Goto(c, "mdc_return")
    /\ UNCHANGED <<config, fields, op, frame, retval, calls, entry, platform,
                   connSerial, dropped, with_stmt>>

\* (mutant) make_dask_client without the guard on _initialized
MdcCheck_NoGuard(c) ==
    /\ pc[c] = "mdc_check"
    /\ IF client[c] = None /\ frame[c].retries > 0
       THEN Goto(c, "mdc_connect")
       ELSE Goto(c, "mdc_return")
    /\ UNCHANGED <<config, fields, op, frame, retval, calls, entry, platform,
                   connSerial, dropped, with_stmt>>

\* lines 162-164: the guard on _initialized, and the test of the memoized client
MdcCheck(c) ==
    /\ pc[c] = "mdc_check"
    /\ IF ~initialized[c]
       THEN Leave(c, "ValueError")
       ELSE IF client[c] = None /\ frame[c].retries > 0
            THEN Goto(c, "mdc_connect")
            ELSE Goto(c, "mdc_return")
    /\ UNCHANGED <<config, fields, op, frame, retval, calls, entry, platform,
                   connSerial, dropped, with_stmt>>

\* (mutant) the loop gives up after its first attempt
mdc_after_attempt_once(c, connected) == "mdc_return"

\* where the loop of lines 165-169 goes after one attempt
mdc_after_attempt(c, connected) ==
    IF frame[c].attempt + 1 < frame[c].retries THEN "mdc_connect" ELSE "mdc_return"

\* one turn of `for _ in range(retries)`: Client(self._scheduler, timeout),
\* which connects or raises OSError / TimeoutError (caught, retried)
MdcConnect(c) ==
    /\ pc[c] = "mdc_connect"
    /\ \E answer \in {"connected", "OSError", "TimeoutError"} :
        /\ answer = "connected" => connSerial < MaxClients
        /\ IF answer = "connected"
           THEN /\ connSerial' = connSerial + 1
                /\ client' = [client EXCEPT ![c] = Client(connSerial + 1)]
           ELSE UNCHANGED <<connSerial, client>>
        /\ Log(c, Call("connect", None, scheduler[c], DefaultTimeout, "attempted", 0))
        /\ frame' = [frame EXCEPT
                ![c].attempt = @ + 1,
                ![c].first_client =
                    IF @ = None /\ answer = "connected" THEN Client(connSerial + 1) ELSE @,
                ![c].attempted_after_success = @ \/ frame[c].first_client /= None]
        /\ Goto(c, mdc_after_attempt(c, answer = "connected"))
    /\ UNCHANGED <<config, initialized, scheduler, dashboard, op, retval, entry,
                   platform, dropped, with_stmt>>

\* (mutant) scale is handed None whatever client is memoized
MdcReturn_HandsNone(c) ==
    /\ pc[c] = "mdc_return"
    /\ IF frame[c].caller = "scale"
       THEN /\ frame' = [frame EXCEPT ![c].client = None]
            /\ Goto(c, "scale_poll")
            /\ UNCHANGED retval
       ELSE /\ retval' = [retval EXCEPT ![c] = client[c]]
            /\ Leave(c, "returned")
            /\ UNCHANGED frame
    /\ UNCHANGED <<config, fields, op, calls, entry, platform, connSerial, dropped, with_stmt>>

\* return self._client: to the caller, or to scale (line 200)
MdcReturn(c) ==
    /\ pc[c] = "mdc_return"
    /\ IF frame[c].caller = "scale"
       THEN /\ frame' = [frame EXCEPT ![c].client = client[c]]
            /\ Goto(c, "scale_poll")
            /\ UNCHANGED retval
       ELSE /\ retval' = [retval EXCEPT ![c] = client[c]]
            /\ Leave(c, "returned")
            /\ UNCHANGED frame
    /\ UNCHANGED <<config, fields, op, calls, entry, platform, connSerial, dropped, with_stmt>>


(***************************************************************************)
(* DaskCluster.scale                                                       *)
(***************************************************************************)
CallScale(c, n, blocking) ==
    /\ Enter(c, "scale", "scale_check",
             [EmptyFrame EXCEPT !.n = n, !.blocking = blocking,
                                !.retries = DefaultRetries, !.caller = "scale"])
    /\ UNCHANGED <<config, fields, platform, connSerial, dropped, with_stmt>>

\* (mutant) scale without the guard on _initialized
ScaleCheck_NoGuard(c) ==
    /\ pc[c] = "scale_check"
    /\ Goto(c, "scale_patch")
    /\ UNCHANGED <<config, fields, op, frame, retval, calls, entry, platform,
                   connSerial, dropped, with_stmt>>

\* lines 194-195
ScaleCheck(c) ==
    /\ pc[c] = "scale_check"
    /\ IF ~initialized[c]
       THEN Leave(c, "ValueError")
       ELSE Goto(c, "scale_patch")
    /\ UNCHANGED <<config, fields, op, frame, retval, calls, entry, platform,
                   connSerial, dropped, with_stmt>>

\* (mutant) scale waits for the workers whatever `blocking` says
scale_after_patch_always_blocking(c) == "mdc_check"

\* where scale goes once the patch is accepted (line 199)
scale_after_patch(c) == IF frame[c].blocking THEN "mdc_check" ELSE "done"

\* apps_v1.patch_namespaced_deployment(self.name_workers_deployment,
\* self.namespace, {'spec': {'replicas': n}})
\* (mutant) the patch reaches every deployment of the namespace
ScalePatch_AllDeployments(c) ==
    /\ pc[c] = "scale_patch"
    /\ LET name == name_workers_deployment(c)
           found == {d \in deployments : d.ns = namespace[c]}
           hit == CreatorOf(DeploymentsNamed(namespace[c], name))
       IN  \E accepted \in Answers :
            IF found /= {} /\ accepted
            THEN /\ Log(c, Call("patch_deployment", namespace[c], name,
                                frame[c].n, "patched", hit))
                 /\ deployments' = (deployments \ found) \cup
                        {[d EXCEPT !.replicas = frame[c].n] : d \in found}
                 /\ pc' = [pc EXCEPT ![c] = scale_after_patch(c)]
                 /\ outcome' = [outcome EXCEPT ![c] =
                        IF scale_after_patch(c) = "done" THEN "returned" ELSE @]
            ELSE /\ Log(c, Call("patch_deployment", namespace[c], name,
                                frame[c].n,
                                IF found = {} THEN "not_found" ELSE "error", hit))
                 /\ Leave(c, "ApiException")
                 /\ UNCHANGED deployments
    /\ UNCHANGED <<config, fields, op, frame, retval, entry, services, connSerial, dropped, with_stmt>>

ScalePatch(c) ==
    /\ pc[c] = "scale_patch"
    /\ LET name == name_workers_deployment(c)
           found == DeploymentsNamed(namespace[c], name)
           hit == CreatorOf(found)
       IN  \E accepted \in Answers :
            IF found /= {} /\ accepted
            THEN /\ Log(c, Call("patch_deployment", namespace[c], name,
                                frame[c].n, "patched", hit))
                 /\ deployments' = (deployments \ found) \cup
                        {[d EXCEPT !.replicas = frame[c].n] : d \in found}
                 /\ pc' = [pc EXCEPT ![c] = scale_after_patch(c)]
                 /\ outcome' = [outcome EXCEPT ![c] =
                        IF scale_after_patch(c) = "done" THEN "returned" ELSE @]
            ELSE /\ Log(c, Call("patch_deployment", namespace[c], name,
                                frame[c].n,
                                IF found = {} THEN "not_found" ELSE "error", hit))
                 /\ Leave(c, "ApiException")
                 /\ UNCHANGED deployments
    /\ UNCHANGED <<config, fields, op, frame, retval, entry, services, connSerial, dropped, with_stmt>>

\* (mutant) enough workers rather than exactly n
reached_at_least(n_workers, n) == n_workers >= n

\* n_workers == n (line 204)
reached(n_workers, n) == n_workers = n

\* one turn of the loop of lines 201-208: sleep(5), then
\* len(client.scheduler_info()["workers"]) against n
ScalePoll(c) ==
    /\ pc[c] = "scale_poll"
    /\ frame[c].polls < MaxPolls
    /\ IF frame[c].client = None
       THEN \* None has no scheduler_info
            /\ Leave(c, "AttributeError")
            /\ UNCHANGED <<frame, calls>>
       ELSE \E n_workers \in 0..(MaxWorkers + 1) :
            /\ Log(c, Call("scheduler_info", None, frame[c].client, 0,
                           "answered", 0))
            /\ frame' = [frame EXCEPT ![c].polls = @ + 1,
                                      ![c].n_workers = n_workers]
            /\ IF reached(n_workers, frame[c].n)
               THEN Leave(c, "returned")
               ELSE Goto(c, "scale_poll")
    /\ UNCHANGED <<config, fields, op, retval, entry, platform, connSerial, dropped, with_stmt>>

\* one turn of the same loop once the number of live workers has become n
\* for good: the scheduler answers n
ScalePollSettled(c) ==
    /\ pc[c] = "scale_poll"
    /\ frame[c].polls >= MaxPolls
    /\ IF frame[c].client = None
       THEN /\ Leave(c, "AttributeError")
            /\ UNCHANGED <<frame, calls>>
       ELSE \E n_workers \in {frame[c].n} :
            /\ Log(c, Call("scheduler_info", None, frame[c].client, 0,
                           "answered", 0))
            /\ frame' = [frame EXCEPT ![c].n_workers = n_workers]
            /\ IF reached(n_workers, frame[c].n)
               THEN Leave(c, "returned")
               ELSE Goto(c, "scale_poll")
    /\ UNCHANGED <<config, fields, op, retval, entry, platform, connSerial, dropped, with_stmt>>


(***************************************************************************)
(* The controller as a context manager: with DaskCluster(...) as c: ...    *)
(***************************************************************************)
\* the resources (kind and name) that the calls of kind `kind` of the call
\* that is ending were about, those of result in `results`
Touched(c, kind, results) ==
    LET log == {calls[c][i] : i \in DOMAIN calls[c]}
    IN  {<<"service", e.name>> : e \in {x \in log :
                x.call = kind \o "_service" /\ x.result \in results}}
        \cup
        {<<"deployment", e.name>> : e \in {x \in log :
                x.call = kind \o "_deployment" /\ x.result \in results}}

\* the with statement is entered: __enter__ calls self.create()
WithEnter(c) ==
    /\ with_stmt[c].stage \in {"outside", "left"}
    /\ Enter(c, "create", "create_service_scheduler", EmptyFrame)
    /\ with_stmt' = [with_stmt EXCEPT ![c] = [NoWith EXCEPT !.stage = "enter"]]
    /\ UNCHANGED <<config, fields, platform, connSerial, dropped>>

\* create() is over: __enter__ returns self and the body starts, or the
\* exception of create() leaves the with statement, whose __exit__ is called
\* only for a context that was entered
WithEnterReturn(c) ==
    /\ with_stmt[c].stage = "enter"
    /\ op[c] = "create"
    /\ with_stmt' = [with_stmt EXCEPT
            ![c].created = Touched(c, "create", {"created"}),
            ![c].stage = IF outcome[c] = "returned" THEN "body" ELSE "left",
            ![c].exc = IF outcome[c] = "returned" THEN None ELSE outcome[c]]
    /\ ReturnFrame(c)

\* the body completes or raises: __exit__ calls self.close()
WithExit(c, raised) ==
    /\ with_stmt[c].stage = "body"
    /\ Enter(c, "close", "close_service_scheduler", EmptyFrame)
    /\ with_stmt' = [with_stmt EXCEPT
            ![c].stage = "exit",
            ![c].exc = IF raised THEN "Exception" ELSE None]
    /\ UNCHANGED <<config, fields, platform, connSerial, dropped>>

\* close() is over: __exit__ returns None, control leaves the with statement
\* (with the exception of the body, if it raised one)
WithExitReturn(c) ==
    /\ with_stmt[c].stage = "exit"
    /\ op[c] = "close"
    /\ with_stmt' = [with_stmt EXCEPT
            ![c].deleted = Touched(c, "delete", {"deleted", "not_found", "error"}),
            ![c].stage = "left"]
    /\ ReturnFrame(c)


(***************************************************************************)
(* Specifications                                                          *)
(***************************************************************************)
Next ==
    \/ \E c \in Ctl : CallCreate(c)
    \/ \E c \in Ctl : CreateSchedulerService(c)
    \/ \E c \in Ctl : CreateDashboardService(c)
    \/ \E c \in Ctl : CreateSchedulerDeployment(c)
    \/ \E c \in Ctl : CreateWorkersDeployment(c)
    \/ \E c \in Ctl : PollSchedulerPod(c)
    \/ \E c \in Ctl : CallClose(c)
    \/ \E c \in Ctl : DeleteSchedulerService(c)
    \/ \E c \in Ctl : DeleteDashboardService(c)
    \/ \E c \in Ctl : DeleteSchedulerDeployment(c)
    \/ \E c \in Ctl : DeleteWorkersDeployment(c)
    \/ \E c \in Ctl : CloseClear(c)
    \/ \E c \in Ctl, retries \in Retries : CallMakeDaskClient(c, retries)
    \/ \E c \in Ctl : MdcCheck(c)
    \/ \E c \in Ctl : MdcConnect(c)
    \/ \E c \in Ctl : MdcReturn(c)
    \/ \E c \in Ctl, n \in 0..MaxWorkers, blocking \in BOOLEAN : CallScale(c, n, blocking)
    \/ \E c \in Ctl : ScaleCheck(c)
    \/ \E c \in Ctl : ScalePatch(c)
    \/ \E c \in Ctl : ScalePoll(c)
    \/ \E c \in Ctl : Return(c)

\* one controller
Spec == Init /\ [][Next]_vars

\* two controllers of distinct cluster_id on a platform that refuses nothing
\* it could serve, each creating, scaling (without blocking) and closing
InitTwo ==
    /\ cluster_id \in {f \in [{1, 2} -> ClusterIds] : f[1] /= f[2]}
    /\ faulty = FALSE
    /\ InitFields

NextTwo ==
    \/ \E c \in Ctl : CallCreate(c)
    \/ \E c \in Ctl : CreateSchedulerService(c)
    \/ \E c \in Ctl : CreateDashboardService(c)
    \/ \E c \in Ctl : CreateSchedulerDeployment(c)
    \/ \E c \in Ctl : CreateWorkersDeployment(c)
    \/ \E c \in Ctl : PollSchedulerPod(c)
    \/ \E c \in Ctl : CallClose(c)
    \/ \E c \in Ctl : DeleteSchedulerService(c)
    \/ \E c \in Ctl : DeleteDashboardService(c)
    \/ \E c \in Ctl : DeleteSchedulerDeployment(c)
    \/ \E c \in Ctl : DeleteWorkersDeployment(c)
    \/ \E c \in Ctl : CloseClear(c)
    \/ \E c \in Ctl, n \in 0..MaxWorkers : CallScale(c, n, FALSE)
    \/ \E c \in Ctl : ScaleCheck(c)
    \/ \E c \in Ctl : ScalePatch(c)
    \/ \E c \in Ctl : Return(c)

SpecTwo == InitTwo /\ [][NextTwo]_vars

\* one controller used only as a context manager, time after time
NextWith ==
    \/ \E c \in Ctl : WithEnter(c)
    \/ \E c \in Ctl : CreateSchedulerService(c)
    \/ \E c \in Ctl : CreateDashboardService(c)
    \/ \E c \in Ctl : CreateSchedulerDeployment(c)
    \/ \E c \in Ctl : CreateWorkersDeployment(c)
    \/ \E c \in Ctl : PollSchedulerPod(c)
    \/ \E c \in Ctl : WithEnterReturn(c)
    \/ \E c \in Ctl, raised \in BOOLEAN : WithExit(c, raised)
    \/ \E c \in Ctl : DeleteSchedulerService(c)
    \/ \E c \in Ctl : DeleteDashboardService(c)
    \/ \E c \in Ctl : DeleteSchedulerDeployment(c)
    \/ \E c \in Ctl : DeleteWorkersDeployment(c)
    \/ \E c \in Ctl : CloseClear(c)
    \/ \E c \in Ctl : WithExitReturn(c)

SpecWith == Init /\ [][NextWith]_vars

\* one controller, the number of live workers settling at what a blocking
\* scale asked for after at most MaxPolls other answers
NextLive ==
    \/ \E c \in Ctl : CallCreate(c)
    \/ \E c \in Ctl : CreateSchedulerService(c)
    \/ \E c \in Ctl : CreateDashboardService(c)
    \/ \E c \in Ctl : CreateSchedulerDeployment(c)
    \/ \E c \in Ctl : CreateWorkersDeployment(c)
    \/ \E c \in Ctl : PollSchedulerPod(c)
    \/ \E c \in Ctl : CallClose(c)
    \/ \E c \in Ctl : DeleteSchedulerService(c)
    \/ \E c \in Ctl : DeleteDashboardService(c)
    \/ \E c \in Ctl : DeleteSchedulerDeployment(c)
    \/ \E c \in Ctl : DeleteWorkersDeployment(c)
    \/ \E c \in Ctl : CloseClear(c)
    \/ \E c \in Ctl, retries \in Retries : CallMakeDaskClient(c, retries)
    \/ \E c \in Ctl : MdcCheck(c)
    \/ \E c \in Ctl : MdcConnect(c)
    \/ \E c \in Ctl : MdcReturn(c)
    \/ \E c \in Ctl, n \in 0..MaxWorkers, blocking \in BOOLEAN : CallScale(c, n, blocking)
    \/ \E c \in Ctl : ScaleCheck(c)
    \/ \E c \in Ctl : ScalePatch(c)
    \/ \E c \in Ctl : ScalePoll(c)
    \/ \E c \in Ctl : ScalePollSettled(c)
    \/ \E c \in Ctl : Return(c)

\* the caller's thread runs: a step of scale or of make_dask_client that can
\* be taken is taken (the sleep of a polling loop ends)
FairSteps ==
    /\ WF_vars(\E c \in Ctl : ScaleCheck(c))
    /\ WF_vars(\E c \in Ctl : ScalePatch(c))
    /\ WF_vars(\E c \in Ctl : MdcCheck(c))
    /\ WF_vars(\E c \in Ctl : MdcConnect(c))
    /\ WF_vars(\E c \in Ctl : MdcReturn(c))
    /\ WF_vars(\E c \in Ctl : ScalePoll(c))
    /\ WF_vars(\E c \in Ctl : ScalePollSettled(c))

SpecLive == Init /\ [][NextLive]_vars /\ FairSteps


(***************************************************************************)
(* Properties                                                              *)
(***************************************************************************)
Range(seq) == {seq[i] : i \in DOMAIN seq}

\* the calls of `seq` of the kinds `kinds`, in order
Only(seq, kinds) == SelectSeq(seq, LAMBDA e : e.call \in kinds)

\* what a call asked for: its kind, namespace, target and argument
Request(e) == <<e.call, e.ns, e.name, e.arg>>

Requests(seq) == [i \in DOMAIN seq |-> Request(seq[i])]

Finished(c, method) == op[c] = method /\ pc[c] = "done"

\* C1: a scale (blocking or not) or a make_dask_client entered on a controller
\* that is not initialized goes no further than its guard, ends with the
\* uninitialized-cluster error (ValueError), issues no call to the platform
\* and no connection attempt, and leaves the controller's fields as they were.
C1_UninitializedCallFails ==
    \A c \in Ctl :
        (op[c] \in {"scale", "make_dask_client"} /\ ~entry[c].initialized) =>
            /\ pc[c] \in {"scale_check", "mdc_check", "done"}
            /\ pc[c] = "done" => outcome[c] = "ValueError"
            /\ calls[c] = <<>>
            /\ Snapshot(c) = entry[c]

\* a blocking scale refused on a controller that was created, then closed
C1_Witness ==
    \E c \in Ctl :
        /\ Finished(c, "scale") /\ frame[c].blocking
        /\ ~entry[c].initialized /\ scheduler[c] /= None
        /\ outcome[c] = "ValueError"

\* C2: when close() is over, the services it asked to delete are the two
\* services create() names and the deployments it asked to delete are the two
\* deployments create() names (the scheduler deployment included); and unless
\* the platform refused a deletion it could serve, nothing that this controller
\* created, and nothing under these four names, is left on the platform.
C2_CloseDeletesWhatCreateNamed ==
    \A c \in Ctl :
        Finished(c, "close") =>
            LET svc == {name_scheduler_service(c), name_scheduler_dashboard_service(c)}
                dep == {name_scheduler_deployment(c), name_workers_deployment(c)}
            IN  /\ {e.name : e \in {x \in Range(calls[c]) : x.call = "delete_service"}} = svc
                /\ {e.name : e \in {x \in Range(calls[c]) : x.call = "delete_deployment"}} = dep
                /\ (\A e \in Range(calls[c]) : e.result /= "error") =>
                      /\ {s \in services : s.creator = c} = {}
                      /\ {d \in deployments : d.creator = c} = {}
                      /\ \A n \in svc : ServicesNamed(namespace[c], n) = {}
                      /\ \A n \in dep : DeploymentsNamed(namespace[c], n) = {}

\* a close() that found and deleted all four resources of a finished create()
C2_Witness ==
    \E c \in Ctl :
        /\ Finished(c, "close")
        /\ Len(calls[c]) = 4
        /\ \A e \in Range(calls[c]) : e.result = "deleted"
        /\ entry[c].initialized

\* C3: a blocking scale(n) that returns has just queried the live worker
\* count and was told exactly n.
C3_BlockingScaleReturnsOnExactCount ==
    \A c \in Ctl :
        (Finished(c, "scale") /\ frame[c].blocking /\ outcome[c] = "returned") =>
            /\ frame[c].polls >= 1
            /\ calls[c][Len(calls[c])].call = "scheduler_info"
            /\ frame[c].n_workers = frame[c].n

\* a blocking scale(n), n > 0, that returned on its second query
C3_Witness ==
    \E c \in Ctl :
        /\ Finished(c, "scale") /\ frame[c].blocking /\ outcome[c] = "returned"
        /\ frame[c].n >= 1 /\ frame[c].polls >= 2

\* C4: close() never ends with an exception.
C4_CloseNeverRaises ==
    \A c \in Ctl :
        op[c] = "close" => outcome[c] \in {"running", "returned"}

\* a close() over, one deletion of which was refused and another found nothing
C4_Witness ==
    \E c \in Ctl :
        /\ Finished(c, "close")
        /\ \E e \in Range(calls[c]) : e.result = "error"
        /\ \E e \in Range(calls[c]) : e.result = "not_found"

\* C5: a close() that is over has asked for four deletions: the scheduler
\* service, the dashboard service, the scheduler deployment and the workers
\* deployment, whatever each deletion answered.
C5_CloseAttemptsAllFour ==
    \A c \in Ctl :
        Finished(c, "close") =>
            Requests(calls[c]) =
                << <<"delete_service", namespace[c], "dask-scheduler-" \o cluster_id[c], 0>>,
                   <<"delete_service", namespace[c],
                     "dask-scheduler-" \o cluster_id[c] \o "-dashboard", 0>>,
                   <<"delete_deployment", namespace[c], "dask-scheduler-" \o cluster_id[c], 0>>,
                   <<"delete_deployment", namespace[c], "dask-workers-" \o cluster_id[c], 0>> >>

\* a close() over, whose first and third deletions failed
C5_Witness ==
    \E c \in Ctl :
        /\ Finished(c, "close")
        /\ calls[c][1].result \in {"error", "not_found"}
        /\ calls[c][3].result = "error"
        /\ calls[c][4].result = "deleted"

\* C6: no create, patch or delete of a controller names a service or a
\* deployment that another controller created.
C6_NoCallOnAnothersResource ==
    \A c \in Ctl : \A e \in Range(calls[c]) : e.hit \in {0, c}

\* C7: a create() that returns has asked the platform, in this order, for the
\* scheduler service (port 8786), the dashboard service (port 8787), the
\* scheduler deployment (1 replica) and the workers deployment (0 replicas),
\* all four before its first pod listing, and for no other creation, patch or
\* deletion.
C7_CreateIssuesFourCreations ==
    \A c \in Ctl :
        (Finished(c, "create") /\ outcome[c] = "returned") =>
            LET four == << <<"create_service", namespace[c], name_scheduler_service(c), 8786>>,
                           <<"create_service", namespace[c],
                             name_scheduler_dashboard_service(c), 8787>>,
                           <<"create_deployment", namespace[c],
                             name_scheduler_deployment(c), 1>>,
                           <<"create_deployment", namespace[c],
                             name_workers_deployment(c), 0>> >>
            IN  /\ Len(calls[c]) > 4
                /\ Requests(SubSeq(calls[c], 1, 4)) = four
                /\ \A i \in 5..Len(calls[c]) : calls[c][i].call = "list_pod"

\* a create() that returned after two pod listings
C7_Witness ==
    \E c \in Ctl :
        /\ Finished(c, "create") /\ outcome[c] = "returned"
        /\ Len(Only(calls[c], {"list_pod"})) >= 2

\* C8: when create() returns, the controller is initialized, its scheduler
\* address is tcp://<host>:<node port of the scheduler service> and its
\* dashboard address http://<host>:<node port of the dashboard service>, the
\* host being the one the last pod listing reported and the services those
\* this call created.
C8_CreateResolvesAddresses ==
    \A c \in Ctl :
        (Finished(c, "create") /\ outcome[c] = "returned") =>
            LET host == frame[c].dask_scheduler_external_ip
                sched == ServicesNamed(namespace[c], name_scheduler_service(c))
                dash == ServicesNamed(namespace[c], name_scheduler_dashboard_service(c))
            IN  /\ initialized[c]
                /\ host \in HostIPs
                /\ calls[c][Len(calls[c])].result = "host"
                /\ calls[c][1].result = "created" /\ calls[c][2].result = "created"
                /\ \E s \in sched, d \in dash :
                      /\ sched = {s} /\ dash = {d}
                      /\ s.node_port /= d.node_port
                      /\ s.port = 8786 /\ d.port = 8787
                      /\ scheduler[c] = "tcp://" \o host \o ":" \o ToString(s.node_port)
                      /\ dashboard[c] = "http://" \o host \o ":" \o ToString(d.node_port)

\* a create() that returned on its second pod listing, the scheduler service
\* having been given the higher node port
C8_Witness ==
    \E c \in Ctl :
        /\ Finished(c, "create") /\ outcome[c] = "returned"
        /\ frame[c].polls >= 2
        /\ scheduler[c] = "tcp://10.0.0.5:31001"
        /\ dashboard[c] = "http://10.0.0.5:31000"

\* C9: once create() has started listing pods, it ends only by returning, on
\* a listing whose pod reports a host address (a listing with no pod, or with
\* a pod that has no host address yet, makes it list again).
C9_CreatePollsUntilHost ==
    \A c \in Ctl :
        (Finished(c, "create") /\ Only(calls[c], {"list_pod"}) /= <<>>) =>
            /\ outcome[c] = "returned"
            /\ calls[c][Len(calls[c])].result = "host"

\* C10: a scale(n, blocking=False) entered on an initialized controller goes
\* through its guard and its patch and no further, never changes the memoized
\* client, and when it is over has issued one call: the patch of the workers
\* deployment to n replicas; it returns if the platform accepted the patch.
C10_NonBlockingScalePatchesOnce ==
    \A c \in Ctl :
        (op[c] = "scale" /\ ~frame[c].blocking /\ entry[c].initialized) =>
            /\ pc[c] \in {"scale_check", "scale_patch", "done"}
            /\ client[c] = entry[c].client
            /\ pc[c] = "done" =>
                  /\ Requests(calls[c]) =
                        << <<"patch_deployment", namespace[c],
                             "dask-workers-" \o cluster_id[c], frame[c].n>> >>
                  /\ (calls[c][1].result = "patched") <=> (outcome[c] = "returned")

\* a scale(1, blocking=False) that returned on a controller holding a client
C10_Witness ==
    \E c \in Ctl :
        /\ Finished(c, "scale") /\ ~frame[c].blocking /\ outcome[c] = "returned"
        /\ frame[c].n = 1
        /\ entry[c].client /= None /\ client[c] = entry[c].client
        /\ \E d \in deployments : d.name = name_workers_deployment(c) /\ d.replicas = 1


\* C11: a make_dask_client entered on an initialized controller that holds a
\* memoized client attempts no connection, leaves the memoized client as it
\* is, and returns it.
C11_MemoizedClientReturned ==
    \A c \in Ctl :
        (op[c] = "make_dask_client" /\ entry[c].initialized /\ entry[c].client /= None) =>
            /\ pc[c] \in {"mdc_check", "mdc_return", "done"}
            /\ calls[c] = <<>>
            /\ client[c] = entry[c].client
            /\ pc[c] = "done" => (outcome[c] = "returned" /\ retval[c] = entry[c].client)

\* a make_dask_client(retries=20) that returned the second client the
\* scheduler accepted, memoized before the call
C11_Witness ==
    \E c \in Ctl :
        /\ Finished(c, "make_dask_client") /\ frame[c].retries = 20
        /\ entry[c].client = "Client-2" /\ retval[c] = "Client-2"

\* C12: in a make_dask_client, no connection is attempted after one has
\* succeeded, and the client of the successful attempt is the one memoized
\* and returned.
C12_StopsAtFirstSuccess ==
    \A c \in Ctl :
        op[c] = "make_dask_client" =>
            /\ ~frame[c].attempted_after_success
            /\ (pc[c] = "done" /\ frame[c].first_client /= None) =>
                  (retval[c] = frame[c].first_client /\ client[c] = frame[c].first_client)

\* C13: a make_dask_client entered on an initialized controller without a
\* memoized client, all of whose connection attempts failed, has made exactly
\* `retries` attempts when it is over, ends without an exception, returns
\* None and leaves the memoized client None.
C13_ExhaustedRetriesReturnNone ==
    \A c \in Ctl :
        (Finished(c, "make_dask_client") /\ entry[c].initialized
            /\ entry[c].client = None /\ frame[c].first_client = None) =>
            /\ outcome[c] = "returned"
            /\ retval[c] = None
            /\ client[c] = None
            /\ Len(calls[c]) = frame[c].retries
            /\ \A e \in Range(calls[c]) : e.call = "connect" /\ e.name = scheduler[c]

\* a make_dask_client with the default 20 retries, all failed
C13_Witness ==
    \E c \in Ctl :
        /\ Finished(c, "make_dask_client") /\ entry[c].initialized
        /\ entry[c].client = None /\ frame[c].first_client = None
        /\ frame[c].retries = 20 /\ Len(calls[c]) = 20

\* C14: when close() is over the controller is not initialized and holds no
\* client.
C14_CloseClears ==
    \A c \in Ctl :
        Finished(c, "close") => (~initialized[c] /\ client[c] = None)

\* a close() of an initialized controller holding a client, two deletions of
\* which were refused
C14_Witness ==
    \E c \in Ctl :
        /\ Finished(c, "close")
        /\ entry[c].initialized /\ entry[c].client /= None
        /\ calls[c][1].result = "error" /\ calls[c][4].result = "error"

\* C15: the scheduler deployment a controller created always asks for exactly
\* 1 replica, and a step of scale(n) leaves the services as they are and the
\* deployments too, but for the replicas of the workers deployment, set to n.
C15_ScaleChangesOnlyWorkerReplicas ==
    /\ [](\A c \in Ctl : \A d \in deployments :
            (d.creator = c /\ d.name = "dask-scheduler-" \o cluster_id[c]) => d.replicas = 1)
    /\ [][\A c \in Ctl :
            (op[c] = "scale" /\ pc[c] /= "done") =>
                /\ services' = services
                /\ \/ deployments' = deployments
                   \/ \E d \in deployments :
                        /\ d.ns = namespace[c]
                        /\ d.name = "dask-workers-" \o cluster_id[c]
                        /\ deployments' =
                              (deployments \ {d}) \cup {[d EXCEPT !.replicas = frame[c].n]}
                        /\ pc[c] = "scale_patch"]_vars

\* a scale(1) whose patch was accepted, the scheduler deployment and the two
\* services being there
C15_Witness ==
    \E c \in Ctl :
        /\ Finished(c, "scale") /\ frame[c].n = 1
        /\ Len(calls[c]) >= 1 /\ calls[c][1].result = "patched"
        /\ \E d \in deployments : d.name = name_workers_deployment(c) /\ d.replicas = 1
        /\ \E d \in deployments : d.name = name_scheduler_deployment(c) /\ d.replicas = 1
        /\ Cardinality(services) = 2

\* C16: the controller's worker template is never modified, and the workers
\* deployment a create() has just had accepted carries the entries of that
\* template followed by one more, DASK_SCHEDULER_ADDRESS, whose value is the
\* cluster IP and port (8786) of the scheduler service this create() created.
C16_WorkerTemplateInjection ==
    \A c \in Ctl :
        /\ worker_pod_spec[c] = worker_pod_spec_yaml
        /\ (op[c] = "create" /\ Len(calls[c]) >= 4 /\ calls[c][4].result = "created") =>
              \E d \in deployments, s \in services :
                  /\ DeploymentsNamed(namespace[c], "dask-workers-" \o cluster_id[c]) = {d}
                  /\ ServicesNamed(namespace[c], "dask-scheduler-" \o cluster_id[c]) = {s}
                  /\ calls[c][1].result = "created"
                  /\ Len(d.env) = Len(worker_pod_spec_yaml) + 1
                  /\ SubSeq(d.env, 1, Len(worker_pod_spec_yaml)) = worker_pod_spec_yaml
                  /\ d.env[Len(d.env)] =
                        [name |-> "DASK_SCHEDULER_ADDRESS",
                         value |-> s.cluster_ip \o ":8786"]

\* a create() that returned on a controller that had been created before
C16_Witness ==
    \E c \in Ctl :
        /\ Finished(c, "create") /\ outcome[c] = "returned"
        /\ entry[c].scheduler /= None /\ ~entry[c].initialized
        /\ \E d \in deployments :
              d.name = name_workers_deployment(c) /\ Len(d.env) = 5

\* C17: a create() entered on a controller that is not initialized, one of
\* whose creations the platform rejected, ends with the ApiException right
\* after that creation (no further creation, no pod listing), leaves the
\* controller's fields as they were, and leaves on the platform the
\* resources its earlier creations made.
C17_RejectedCreationPropagates ==
    \A c \in Ctl :
        (Finished(c, "create") /\ ~entry[c].initialized
            /\ \E e \in Range(calls[c]) : e.result \in {"error", "conflict"}) =>
            LET k == Len(calls[c])
                four == << <<"create_service", namespace[c], name_scheduler_service(c), 8786>>,
                           <<"create_service", namespace[c],
                             name_scheduler_dashboard_service(c), 8787>>,
                           <<"create_deployment", namespace[c],
                             name_scheduler_deployment(c), 1>>,
                           <<"create_deployment", namespace[c],
                             name_workers_deployment(c), 0>> >>
            IN  /\ outcome[c] = "ApiException"
                /\ k <= 4
                /\ Requests(calls[c]) = SubSeq(four, 1, k)
                /\ calls[c][k].result \in {"error", "conflict"}
                /\ \A i \in 1..(k - 1) :
                      /\ calls[c][i].result = "created"
                      /\ IF calls[c][i].call = "create_service"
                         THEN \E s \in ServicesNamed(namespace[c], calls[c][i].name) :
                                 s.creator = c
                         ELSE \E d \in DeploymentsNamed(namespace[c], calls[c][i].name) :
                                 d.creator = c
                /\ Snapshot(c) = entry[c]
                /\ ~initialized[c]

\* a create() whose workers deployment was rejected, the two services and the
\* scheduler deployment staying on the platform
C17_Witness ==
    \E c \in Ctl :
        /\ Finished(c, "create") /\ outcome[c] = "ApiException"
        /\ Len(calls[c]) = 4 /\ calls[c][4].result = "error"
        /\ Cardinality(services) = 2 /\ Cardinality(deployments) = 1

\* C18: whatever calls were made and however they ended, a controller holds
\* a memoized client only while it is initialized, and neither holds nor
\* returns from make_dask_client a client that one of its close() dropped.
C18_ClientOnlyWhileInitialized ==
    \A c \in Ctl :
        /\ client[c] /= None => initialized[c]
        /\ client[c] \notin dropped[c]
        /\ Finished(c, "make_dask_client") => retval[c] \notin dropped[c]

\* a make_dask_client that returned a client after a close() had dropped one
C18_Witness ==
    \E c \in Ctl :
        /\ Finished(c, "make_dask_client") /\ outcome[c] = "returned"
        /\ retval[c] /= None
        /\ dropped[c] /= {}

\* C19: when control has left a with statement on the controller, a deletion
\* was attempted for every resource its entry created on the platform,
\* whether the body completed or raised or create() itself failed.
C19_WithStatementDeletesWhatItCreated ==
    \A c \in Ctl :
        with_stmt[c].stage = "left" => with_stmt[c].created \subseteq with_stmt[c].deleted

\* C20: a blocking scale(n) whose patch the platform accepted eventually ends,
\* and ends by returning if make_dask_client gave it a client, the number of
\* live workers settling at n; and in a scale the patch is the first call
\* issued, before any connection attempt and any query of the workers.
C20_BlockingScaleReturns ==
    /\ [](\A c \in Ctl : op[c] = "scale" =>
            \A i \in DOMAIN calls[c] :
                calls[c][i].call \in {"connect", "scheduler_info"} =>
                    /\ i > 1
                    /\ calls[c][1].call = "patch_deployment"
                    /\ calls[c][1].result = "patched")
    /\ \A c \in {1} :
          (/\ op[c] = "scale" /\ frame[c].blocking /\ pc[c] /= "done"
           /\ Len(calls[c]) >= 1 /\ calls[c][1].result = "patched")
          ~> (/\ Finished(c, "scale")
              /\ client[c] /= None => outcome[c] = "returned")

\* a blocking scale that returned after the workers had settled, having
\* connected by itself
C20_Witness ==
    \E c \in Ctl :
        /\ Finished(c, "scale") /\ frame[c].blocking /\ outcome[c] = "returned"
        /\ frame[c].polls >= MaxPolls
        /\ entry[c].client = None /\ client[c] /= None
        /\ calls[c][Len(calls[c])].call = "scheduler_info"

====
